---- MODULE Spec2Model ----
(***************************************************************************)
(* espnet2/asr_nystrom/transformer/attention.py: MultiHeadedAttention and  *)
(* NystromAttention.                                                       *)
(*                                                                         *)
(* Spec      the life of one module instance: construction, then forward   *)
(*           calls.  A tensor is its shape together with the expression    *)
(*           that computed it (learned weights and exp are not             *)
(*           interpreted); every torch shape rule that can raise is kept.  *)
(* SpecInv   iterative_inv on matrices of exact rationals, one loop        *)
(*           iteration per step.                                           *)
(* SpecAttn  forward_attention on score and mask values: the fill, the     *)
(*           softmax and the second fill, with exact rational weights.     *)
(* SpecLand  lines 176-182 on the values of one of q, k: repeat, truncate, *)
(*           segment, average.                                             *)
(***************************************************************************)
EXTENDS Integers, Sequences, FiniteSets, TLC

VARIABLES inst, ctor, attn, last, inv, lm, fa

vars == <<inst, ctor, attn, last, inv, lm, fa>>

\* the frames of the functions that the other specifications run
frames == <<inv, lm, fa>>

(* ----------------------------- bounds ---------------------------------- *)
MaxT == 2
MaxLandmarks == 4
Kernels == {1, 2, 3}
Batches == {1, 2}
Heads == {1, 2}
FeatDims == {2, 3}
AttnDims == {1, 2}
QueryIds == {"x"}
MaskIds == {"pad"}

(* ----------------------------- tensors --------------------------------- *)
Mk(shape, op, args, n) ==
  [shape |-> shape, data |-> [op |-> op, args |-> args, n |-> n]]

NoneT == Mk(<<>>, "None", <<>>, 0)

Err(line) == Mk(<<>>, "error", <<>>, line)

IsErr(t) == t.data.op = "error"

IsNone(t) == t.data.op = "None"

Input(id, shape) == Mk(shape, id, <<>>, 0)

RECURSIVE Numel(_)
Numel(shape) == IF shape = <<>> THEN 1 ELSE Head(shape) * Numel(Tail(shape))

\* broadcasting of one pair of sizes; 0 when they do not broadcast
Bc(a, b) == IF a = b THEN a ELSE IF a = 1 THEN b ELSE IF b = 1 THEN a ELSE 0

\* whether a tensor of shape s expands to shape t (in-place ops, masked_fill)
ExpandsTo(s, t) ==
  /\ Len(s) = Len(t)
  /\ \A i \in 1..Len(s) : s[i] = t[i] \/ s[i] = 1

\* nn.Linear(in, out) applied to x
Linear(layer, x, line) ==
  IF IsErr(x) THEN x
  ELSE IF x.shape[Len(x.shape)] # layer.in THEN Err(line)
  ELSE Mk([x.shape EXCEPT ![Len(x.shape)] = layer.out], layer.name, <<x.data>>, 0)

\* x.view(n_batch, -1, h, d_k)
View4(x, n_batch, h, d_k, line) ==
  IF IsErr(x) THEN x
  ELSE IF n_batch * h * d_k = 0 \/ Numel(x.shape) % (n_batch * h * d_k) # 0
       THEN Err(line)
  ELSE Mk(<<n_batch, Numel(x.shape) \div (n_batch * h * d_k), h, d_k>>,
          "view", <<x.data>>, 0)

\* x.transpose(i, j)
Transpose(x, i, j) ==
  IF IsErr(x) THEN x
  ELSE Mk([x.shape EXCEPT ![i] = x.shape[j], ![j] = x.shape[i]],
          "transpose", <<x.data>>, 10 * i + j)

\* torch.matmul of two 4-d tensors: batch axes broadcast, inner axes agree
Matmul(x, y, line) ==
  IF IsErr(x) THEN x
  ELSE IF IsErr(y) THEN y
  ELSE IF \/ x.shape[4] # y.shape[3]
          \/ Bc(x.shape[1], y.shape[1]) = 0
          \/ Bc(x.shape[2], y.shape[2]) = 0
       THEN Err(line)
  ELSE Mk(<<Bc(x.shape[1], y.shape[1]), Bc(x.shape[2], y.shape[2]),
            x.shape[3], y.shape[4]>>,
          "matmul", <<x.data, y.data>>, 0)

\* x / c  (c named by the expression that computes it)
DivBy(x, c, n) ==
  IF IsErr(x) THEN x ELSE Mk(x.shape, c, <<x.data>>, n)

\* torch.softmax(x, dim=-1)
Softmax(x) ==
  IF IsErr(x) THEN x ELSE Mk(x.shape, "softmax", <<x.data>>, 0)

\* mask.unsqueeze(1).eq(0)
UnsqueezeEq0(mask) ==
  Mk(<<mask.shape[1], 1>> \o Tail(mask.shape), "unsqueeze1_eq0", <<mask.data>>, 0)

\* x.masked_fill(mask, value)
MaskedFill(x, mask, value, line) ==
  IF IsErr(x) THEN x
  ELSE IF ~ExpandsTo(mask.shape, x.shape) THEN Err(line)
  ELSE Mk(x.shape, value, <<x.data, mask.data>>, 0)

\* nn.Dropout: a new tensor, its argument is left as it is
Dropout(x) ==
  IF IsErr(x) THEN x ELSE Mk(x.shape, "dropout", <<x.data>>, 0)

\* x.transpose(1, 2).contiguous().view(n_batch, -1, width)
Merge(x, n_batch, width, line) ==
  IF IsErr(x) THEN x
  ELSE IF n_batch * width = 0 \/ Numel(x.shape) % (n_batch * width) # 0
       THEN Err(line)
  ELSE Mk(<<n_batch, Numel(x.shape) \div (n_batch * width), width>>,
          "merge", <<x.data>>, 0)

\* torch.cat((x, x, x), -2)
Cat3(x) ==
  IF IsErr(x) THEN x
  ELSE Mk([x.shape EXCEPT ![3] = 3 * x.shape[3]], "cat3", <<x.data>>, 0)

Min(a, b) == IF a <= b THEN a ELSE b

\* x[:, :, :bound, :]  (a slice past the end stops at the end)
SliceTime(x, bound) ==
  IF IsErr(x) THEN x
  ELSE Mk([x.shape EXCEPT ![3] = Min(x.shape[3], bound)], "slice", <<x.data>>, bound)

\* x.reshape(-1, h, n_landmarks, seg, d_k)
Reshape5(x, h, n_landmarks, seg, d_k, line) ==
  IF IsErr(x) THEN x
  ELSE IF Numel(x.shape) % (h * n_landmarks * seg * d_k) # 0 THEN Err(line)
  ELSE Mk(<<Numel(x.shape) \div (h * n_landmarks * seg * d_k),
            h, n_landmarks, seg, d_k>>, "reshape", <<x.data>>, seg)

\* x.mean(dim = -2) of a 5-d tensor
MeanSeg(x) ==
  IF IsErr(x) THEN x
  ELSE Mk(<<x.shape[1], x.shape[2], x.shape[3], x.shape[5]>>, "mean", <<x.data>>, 0)

\* nn.Conv2d(h, h, kernel_size = (d_kernel, 1), padding = (d_kernel // 2, 0),
\*           bias = False, groups = h) applied to x
Conv(x, h, d_kernel, line) ==
  IF IsErr(x) THEN x
  ELSE IF x.shape[2] # h \/ x.shape[3] + 2 * (d_kernel \div 2) < d_kernel THEN Err(line)
  ELSE Mk([x.shape EXCEPT ![3] = x.shape[3] + 2 * (d_kernel \div 2) - d_kernel + 1],
          "conv", <<x.data>>, d_kernel)

\* x += y
AddInPlace(x, y, line) ==
  IF IsErr(x) THEN x
  ELSE IF IsErr(y) THEN y
  ELSE IF ~ExpandsTo(y.shape, x.shape) THEN Err(line)
  ELSE Mk(x.shape, "add", <<x.data, y.data>>, 0)

(* ------------------------ module instances ------------------------------ *)
Layer(name, in, out) == [name |-> name, in |-> in, out |-> out]

NoLayer == Layer("none", 0, 0)

Instance(kind, h, d_k, n_landmarks, d_kernel, n_feat, n_attn) ==
  [kind |-> kind, h |-> h, d_k |-> d_k,
   n_landmarks |-> n_landmarks, d_kernel |-> d_kernel,
   linear_q |-> IF n_attn = 0 THEN NoLayer ELSE Layer("linear_q", n_feat, n_attn),
   linear_k |-> IF n_attn = 0 THEN NoLayer ELSE Layer("linear_k", n_feat, n_attn),
   linear_v |-> IF n_attn = 0 THEN NoLayer ELSE Layer("linear_v", n_feat, n_attn),
   linear_out |-> IF n_attn = 0 THEN NoLayer ELSE Layer("linear_out", n_attn, n_feat)]

NoInstance == Instance("none", 0, 0, 0, 0, 0, 0)

\* the constructor raised: no object exists
Raised == Instance("raised", 0, 0, 0, 0, 0, 0)

\* a constructor without the n_attn assertion
MHA_init_unchecked(n_head, n_feat, n_attn) ==
  IF n_feat % n_head # 0 THEN Raised
  ELSE Instance("mha", n_head, n_attn \div n_head, 0, 0, n_feat, n_attn)

\* MultiHeadedAttention.__init__(n_head, n_feat, n_attn, dropout_rate)
MHA_init(n_head, n_feat, n_attn) ==
  IF n_feat % n_head # 0 THEN Raised
  ELSE IF n_attn % n_head # 0 THEN Raised
  ELSE Instance("mha", n_head, n_attn \div n_head, 0, 0, n_feat, n_attn)

\* NystromAttention.__init__(n_head, n_feat, n_landmarks, n_attn, d_kernel)
Nystrom_init(n_head, n_feat, n_landmarks, n_attn, d_kernel) ==
  IF n_attn % n_head # 0 THEN Raised
  ELSE Instance("nystrom", n_head, n_attn \div n_head, n_landmarks, d_kernel,
                n_feat, n_attn)

(* ------------------------ MultiHeadedAttention -------------------------- *)
\* forward_qkv: <<q, k, v>>, each (batch, head, time, d_k)
forward_qkv(self, query, key, value) ==
  LET n_batch == query.shape[1]
      q == View4(Linear(self.linear_q, query, 56), n_batch, self.h, self.d_k, 56)
      k == View4(Linear(self.linear_k, key, 57), n_batch, self.h, self.d_k, 57)
      v == View4(Linear(self.linear_v, value, 58), n_batch, self.h, self.d_k, 58)
  IN  <<Transpose(q, 2, 3), Transpose(k, 2, 3), Transpose(v, 2, 3)>>

\* the weights forward_attention assigns to self.attn
attention_weights(scores, mask) ==
  IF IsNone(mask) THEN Softmax(scores)
  ELSE LET m == UnsqueezeEq0(mask)
       IN  MaskedFill(Softmax(MaskedFill(scores, m, "fill_min_value", 82)),
                      m, "fill_zero", 83)

\* what a call leaves: stored says self.attn was assigned, out is the value
\* returned, or the error raised
Outcome(stored, w, out) == [stored |-> stored, attn |-> w, out |-> out]

\* the first step, in program order, that raised
FirstErr(steps) ==
  steps[CHOOSE i \in 1..Len(steps) :
          IsErr(steps[i]) /\ \A j \in 1..(i - 1) : ~IsErr(steps[j])]

Raises(steps) == \E i \in 1..Len(steps) : IsErr(steps[i])

\* forward_attention(value, scores, mask)
forward_attention(self, value, scores, mask) ==
  LET n_batch == value.shape[1]
      w == attention_weights(scores, mask)
      p_attn == Dropout(w)
      x == Matmul(p_attn, value, 90)
  IN  IF Raises(<<value, scores, w>>)
      THEN Outcome(FALSE, NoneT, FirstErr(<<value, scores, w>>))
      ELSE Outcome(TRUE, w,
                   Linear(self.linear_out,
                          Merge(x, n_batch, self.h * self.d_k, 92), 95))

\* a forward whose scores are k q^T instead of q k^T
MHA_forward_swapped(self, query, key, value, mask) ==
  LET qkv == forward_qkv(self, query, key, value)
      scores == DivBy(Matmul(qkv[2], Transpose(qkv[1], 3, 4), 112),
                      "div_sqrt_d_k", self.d_k)
  IN  IF Raises(qkv) THEN Outcome(FALSE, NoneT, FirstErr(qkv))
      ELSE forward_attention(self, qkv[3], scores, mask)

\* MultiHeadedAttention.forward
MHA_forward(self, query, key, value, mask) ==
  LET qkv == forward_qkv(self, query, key, value)
      scores == DivBy(Matmul(qkv[1], Transpose(qkv[2], 3, 4), 112),
                      "div_sqrt_d_k", self.d_k)
  IN  IF Raises(qkv) THEN Outcome(FALSE, NoneT, FirstErr(qkv))
      ELSE forward_attention(self, qkv[3], scores, mask)

(* --------------------------- NystromAttention --------------------------- *)
\* iterative_inv(mat) with the default n_iter = 6
iterative_inv_of(mat, line) ==
  IF IsErr(mat) THEN mat
  ELSE IF mat.shape[3] # mat.shape[4] THEN Err(line)
  ELSE Mk(mat.shape, "iterative_inv", <<mat.data>>, 6)

\* a slice bound rounded up to a multiple of n_landmarks
landmark_bound_ceil(seq_len, n_landmarks) ==
  ((seq_len + n_landmarks - 1) \div n_landmarks) * n_landmarks

\* the slice bound of lines 178-179
landmark_bound(seq_len, n_landmarks) ==
  ((seq_len \div n_landmarks) + 1) * n_landmarks

\* lines 176-182 for one of q, k: repeat, truncate, segment, average
landmarks(self, x, seq_len, line) ==
  LET x_repeat == Cat3(x)
      x_inter == SliceTime(x_repeat, landmark_bound(seq_len, self.n_landmarks))
  IN  MeanSeg(Reshape5(x_inter, self.h, self.n_landmarks,
                       (seq_len \div self.n_landmarks) + 1, self.d_k, line))

\* lines 164-186 of NystromAttention.forward: the projections, the landmarks
\* and the three kernels
nystrom_kernels(self, query, key, value) ==
  LET n_batch == query.shape[1]
      seq_len == query.shape[2]
      q0 == Transpose(View4(Linear(self.linear_q, query, 165),
                            n_batch, self.h, self.d_k, 165), 2, 3)
      k0 == Transpose(View4(Linear(self.linear_k, key, 166),
                            n_batch, self.h, self.d_k, 166), 2, 3)
      v == Transpose(View4(Linear(self.linear_v, value, 167),
                           n_batch, self.h, self.d_k, 167), 2, 3)
      q == DivBy(q0, "div_sqrt_sqrt_d_k", self.d_k)
      k == DivBy(k0, "div_sqrt_sqrt_d_k", self.d_k)
      q_landmarks == landmarks(self, q, seq_len, 181)
      k_landmarks == landmarks(self, k, seq_len, 182)
  IN  [q |-> q, k |-> k, v |-> v,
       q_landmarks |-> q_landmarks, k_landmarks |-> k_landmarks,
       kernel_1 |-> Softmax(Matmul(q, Transpose(k_landmarks, 3, 4), 184)),
       kernel_2 |-> Softmax(Matmul(q_landmarks, Transpose(k_landmarks, 3, 4), 185)),
       kernel_3 |-> Softmax(Matmul(q_landmarks, Transpose(k, 3, 4), 186))]

\* lines 187-197 of NystromAttention.forward
nystrom_output(self, n_batch, ks) ==
  LET x == Matmul(Matmul(ks.kernel_1, iterative_inv_of(ks.kernel_2, 187), 187),
                  Matmul(ks.kernel_3, ks.v, 187), 187)
      w == Matmul(Matmul(ks.kernel_1, iterative_inv_of(ks.kernel_2, 189), 189),
                  ks.kernel_3, 189)
      y == AddInPlace(x, Conv(ks.v, self.h, self.d_kernel, 191), 191)
      steps == <<ks.q, ks.k, ks.v, ks.q_landmarks, ks.k_landmarks,
                 ks.kernel_1, ks.kernel_2, ks.kernel_3, x, w>>
  IN  IF Raises(steps) THEN Outcome(FALSE, NoneT, FirstErr(steps))
      ELSE Outcome(TRUE, w,
                   Linear(self.linear_out,
                          Merge(y, n_batch, self.h * self.d_k, 194), 197))

\* a forward that zeroes the masked entries of kernel_3
Nystrom_forward_masked(self, query, key, value, mask) ==
  LET ks == nystrom_kernels(self, query, key, value)
  IN  nystrom_output(self, query.shape[1],
        IF IsNone(mask) THEN ks
        ELSE [ks EXCEPT !.kernel_3 =
                MaskedFill(@, UnsqueezeEq0(mask), "fill_zero", 186)])

\* NystromAttention.forward(query, key, value, mask): the mask is not read
Nystrom_forward(self, query, key, value, mask) ==
  nystrom_output(self, query.shape[1], nystrom_kernels(self, query, key, value))

(* ------------------------------ the calls ------------------------------- *)
NoFrame == [pc |-> "none"]

Call(kind, query, key, value, mask, out) ==
  [kind |-> kind, query |-> query, key |-> key, value |-> value,
   mask |-> mask, out |-> out]

NoCall == Call("none", NoneT, NoneT, NoneT, NoneT, NoneT)

CtorArgs(kind, n_head, n_feat, n_landmarks, n_attn, d_kernel) ==
  [kind |-> kind, n_head |-> n_head, n_feat |-> n_feat,
   n_landmarks |-> n_landmarks, n_attn |-> n_attn, d_kernel |-> d_kernel]

\* the mask arguments of a call on (B, Tq, F) and (B, Tk, F): None,
\* (B, 1, Tk) or (B, Tq, Tk)
MaskArgs(B, Tq, Tk) ==
  {NoneT} \cup {Input(id, <<B, 1, Tk>>) : id \in MaskIds}
          \cup {Input(id, <<B, Tq, Tk>>) : id \in MaskIds}

Init ==
  /\ inst = NoInstance
  /\ ctor = CtorArgs("none", 0, 0, 0, 0, 0)
  /\ attn = NoneT
  /\ last = NoCall
  /\ inv = NoFrame
  /\ lm = NoFrame
  /\ fa = NoFrame

\* m = MultiHeadedAttention(n_head, n_feat, n_attn, dropout_rate)
ConstructMHA ==
  /\ inst = NoInstance
  /\ \E n_head \in Heads, n_feat \in FeatDims, n_attn \in AttnDims :
       /\ inst' = MHA_init(n_head, n_feat, n_attn)
       /\ ctor' = CtorArgs("mha", n_head, n_feat, 0, n_attn, 0)
  /\ attn' = NoneT
  /\ UNCHANGED <<last, frames>>

\* m = NystromAttention(n_head, n_feat, n_landmarks, n_attn, d_kernel)
ConstructNystrom ==
  /\ inst = NoInstance
  /\ \E n_head \in Heads, n_feat \in FeatDims, n_attn \in AttnDims,
        n_landmarks \in 1..MaxLandmarks, d_kernel \in Kernels :
       /\ inst' = Nystrom_init(n_head, n_feat, n_landmarks, n_attn, d_kernel)
       /\ ctor' = CtorArgs("nystrom", n_head, n_feat, n_landmarks, n_attn, d_kernel)
  /\ attn' = NoneT
  /\ UNCHANGED <<last, frames>>

\* m(query, key, value, mask) on a MultiHeadedAttention
ForwardMHA ==
  /\ inst.kind = "mha"
  /\ \E B \in Batches, Tq \in 1..MaxT, Tk \in 1..MaxT, id \in QueryIds :
       \E mask \in MaskArgs(B, Tq, Tk) :
         LET query == Input(id, <<B, Tq, inst.linear_q.in>>)
             key == Input("key", <<B, Tk, inst.linear_k.in>>)
             value == Input("value", <<B, Tk, inst.linear_v.in>>)
             r == MHA_forward(inst, query, key, value, mask)
         IN  /\ attn' = IF r.stored THEN r.attn ELSE attn
             /\ last' = Call("forward", query, key, value, mask, r.out)
  /\ UNCHANGED <<inst, ctor, frames>>

\* m(query, key, value, mask) on a NystromAttention
ForwardNystrom ==
  /\ inst.kind = "nystrom"
  /\ \E B \in Batches, Tq \in 1..MaxT, Tk \in 1..MaxT, id \in QueryIds :
       \E mask \in MaskArgs(B, Tq, Tk) :
         LET query == Input(id, <<B, Tq, inst.linear_q.in>>)
             key == Input("key", <<B, Tk, inst.linear_k.in>>)
             value == Input("value", <<B, Tk, inst.linear_v.in>>)
             r == Nystrom_forward(inst, query, key, value, mask)
         IN  /\ attn' = IF r.stored THEN r.attn ELSE attn
             /\ last' = Call("forward", query, key, value, mask, r.out)
  /\ UNCHANGED <<inst, ctor, frames>>

Next == ConstructMHA \/ ConstructNystrom \/ ForwardMHA \/ ForwardNystrom

Spec == Init /\ [][Next]_vars

(* ------------------------- claims checked under Spec -------------------- *)
Called(kind) == inst.kind = kind /\ last.kind = "forward"

\* C2: MultiHeadedAttention.forward on a query (B, Tq, F) and key, value
\* (B, Tk, F) returns a tensor of shape exactly (B, Tq, F), whatever Tk and
\* with or without a mask.
MHAOutputShape ==
  Called("mha") =>
    /\ ~IsErr(last.out)
    /\ last.out.shape = last.query.shape
    /\ last.out.shape[3] = ctor.n_feat

MHAOutputShapeWitness ==
  /\ Called("mha")
  /\ last.key.shape[2] # last.query.shape[2]
  /\ ~IsNone(last.mask)
  /\ last.out.shape = last.query.shape

\* C3: NystromAttention.forward completes for every n_landmarks >= 1, every
\* d_kernel >= 1 and every Tq, Tk, returns a tensor of shape (B, Tq, F) and
\* leaves a snapshot of shape (B, n_head, Tq, Tk).
NystromOutputShape ==
  Called("nystrom") =>
    /\ ~IsErr(last.out)
    /\ last.out.shape = last.query.shape
    /\ attn.shape = <<last.query.shape[1], inst.h,
                      last.query.shape[2], last.key.shape[2]>>

\* C4: a constructor called with n_attn not divisible by n_head raises, so
\* that no forward call is possible, and every constructed instance has
\* d_k * h = n_attn.
ConstructionChecksHeads ==
  /\ (ctor.kind # "none" /\ ctor.n_attn % ctor.n_head # 0) =>
       (inst.kind = "raised" /\ last = NoCall /\ attn = NoneT)
  /\ inst.kind \in {"mha", "nystrom"} =>
       /\ inst.d_k * inst.h = ctor.n_attn
       /\ inst.linear_q.out = ctor.n_attn
       /\ inst.linear_out.in = inst.d_k * inst.h

ConstructionChecksHeadsWitness ==
  /\ ctor.kind = "nystrom"
  /\ ctor.n_attn % ctor.n_head # 0
  /\ inst.kind = "raised"

\* C5: the outcome of NystromAttention.forward (the tensor returned or the
\* error raised, and the snapshot stored) is the same for every mask
\* argument, None included, the other arguments being the same.
NystromIgnoresMask ==
  Called("nystrom") =>
    \A m \in MaskArgs(last.query.shape[1], last.query.shape[2], last.key.shape[2]) :
      LET r == Nystrom_forward(inst, last.query, last.key, last.value, m)
      IN  /\ r.out = last.out
          /\ r.stored => r.attn = attn

NystromIgnoresMaskWitness ==
  /\ Called("nystrom")
  /\ ~IsNone(last.mask)
  /\ ~IsErr(last.out)
  /\ attn = Nystrom_forward(inst, last.query, last.key, last.value, NoneT).attn

\* C6: the snapshot is None until the first forward call and, after any
\* sequence of forward calls, is the weights computed by the most recent
\* call.
SnapshotIsLastCall ==
  /\ last.kind = "none" => attn = NoneT
  /\ Called("mha") =>
       attn = MHA_forward(inst, last.query, last.key, last.value, last.mask).attn
  /\ Called("nystrom") =>
       attn = Nystrom_forward(inst, last.query, last.key, last.value, last.mask).attn

(* ======================= iterative_inv on numbers ======================= *)
(* A number is a rational <<numerator, denominator>> in lowest terms, a     *)
(* matrix a sequence of rows, the (batch, head) axes a sequence of          *)
(* matrices.                                                                *)
MaxN == 2
MaxIter == 6
MatSizes == {1, 2}
MatEntries == {0, 1}
MatBatches == {1, 2}

Abs(a) == IF a < 0 THEN -a ELSE a

RECURSIVE GCD(_, _)
GCD(a, b) == IF b = 0 THEN a ELSE GCD(b, a % b)

Rat(n, d) ==
  LET g == GCD(Abs(n), Abs(d))
      sgn == IF d < 0 THEN -1 ELSE 1
  IN  <<sgn * (n \div g), sgn * (d \div g)>>

RInt(a) == <<a, 1>>

RAdd(x, y) == Rat(x[1] * y[2] + y[1] * x[2], x[2] * y[2])

RSub(x, y) == Rat(x[1] * y[2] - y[1] * x[2], x[2] * y[2])

RMul(x, y) == Rat(x[1] * y[1], x[2] * y[2])

RDiv(x, y) == Rat(x[1] * y[2], x[2] * y[1])

RLeq(x, y) == x[1] * y[2] <= y[1] * x[2]

RECURSIVE RSum(_)
RSum(xs) == IF xs = <<>> THEN RInt(0) ELSE RAdd(Head(xs), RSum(Tail(xs)))

RECURSIVE RMax(_)
RMax(xs) ==
  IF Len(xs) = 1 THEN xs[1]
  ELSE LET m == RMax(Tail(xs)) IN IF RLeq(m, Head(xs)) THEN Head(xs) ELSE m

Size(M) == Len(M)

\* torch.eye(n)
Eye(n) == [i \in 1..n |-> [j \in 1..n |-> RInt(IF i = j THEN 1 ELSE 0)]]

\* M.transpose(-1, -2)
MatT(M) == [i \in 1..Size(M) |-> [j \in 1..Size(M) |-> M[j][i]]]

\* torch.matmul(A, B)
MatMul(A, B) ==
  [i \in 1..Size(A) |-> [j \in 1..Size(A) |->
     RSum([k \in 1..Size(A) |-> RMul(A[i][k], B[k][j])])]]

\* c * M for a number c
MatScale(c, M) == [i \in 1..Size(M) |-> [j \in 1..Size(M) |-> RMul(c, M[i][j])]]

\* A - B
MatSub(A, B) == [i \in 1..Size(A) |-> [j \in 1..Size(A) |-> RSub(A[i][j], B[i][j])]]

\* torch.sum(K, dim = -2): entry j is the sum over the row index i of K[i][j]
SumDimM2(K) == [j \in 1..Size(K) |-> RSum([i \in 1..Size(K) |-> K[i][j]])]

\* torch.sum(K, dim = -1): entry i is the sum over the column index j of K[i][j]
SumDimM1(K) == [i \in 1..Size(K) |-> RSum(K[i])]

\* line 143 with the sums taken along dim = -1
iterative_inv_init_dim1(K) ==
  MatScale(RDiv(RInt(1), RMax(SumDimM1(K))), MatT(K))

\* line 143, for the matrix of one batch entry and head:
\* V = 1 / max(sum(K, dim = -2)) * K^T
iterative_inv_init(K) ==
  MatScale(RDiv(RInt(1), RMax(SumDimM2(K))), MatT(K))

\* the loop body with 12 I where the code has 13 I
iterative_inv_step_12(K, V) ==
  LET I == Eye(Size(K))
      KV == MatMul(K, V)
      a == MatSub(MatScale(RInt(7), I), KV)
      b == MatSub(MatScale(RInt(15), I), MatMul(KV, a))
      c == MatSub(MatScale(RInt(12), I), MatMul(KV, b))
  IN  MatMul(MatScale(Rat(1, 4), V), c)

\* lines 146-147, one iteration:
\* V = (0.25 V) (13 I - KV (15 I - KV (7 I - KV)))
iterative_inv_step(K, V) ==
  LET I == Eye(Size(K))
      KV == MatMul(K, V)
      a == MatSub(MatScale(RInt(7), I), KV)
      b == MatSub(MatScale(RInt(15), I), MatMul(KV, a))
      c == MatSub(MatScale(RInt(13), I), MatMul(KV, b))
  IN  MatMul(MatScale(Rat(1, 4), V), c)

IntMat(M) == [i \in 1..Size(M) |-> [j \in 1..Size(M) |-> RInt(M[i][j])]]

\* the non-negative matrices of the model: 0/1 entries, not all zero
Matrices(n) ==
  {IntMat(M) : M \in {X \in [1..n -> [1..n -> MatEntries]] :
                        \E i, j \in 1..n : X[i][j] # 0}}

\* The arguments of iterative_inv.  Identity matrices are iterated up to
\* MaxIter times; on other matrices the numerators and denominators of the
\* iterate leave TLC's integers after one iteration, so they get n_iter <= 1.
InvArgs ==
  {<<[m \in 1..b |-> Eye(n)], n_iter>> :
     n \in 1..MaxN, b \in MatBatches, n_iter \in 0..MaxIter}
  \cup {<<<<K>>, n_iter>> : K \in UNION {Matrices(n) : n \in MatSizes}, n_iter \in 0..1}
  \cup {<<<<K1, K2>>, n_iter>> :
          K1 \in Matrices(2), K2 \in Matrices(2), n_iter \in 0..1}

InvFrame(pc, mat, n_iter, V, i) ==
  [pc |-> pc, mat |-> mat, n_iter |-> n_iter, V |-> V, i |-> i]

InitInv ==
  /\ inst = NoInstance
  /\ ctor = CtorArgs("none", 0, 0, 0, 0, 0)
  /\ attn = NoneT
  /\ last = NoCall
  /\ lm = NoFrame
  /\ fa = NoFrame
  /\ \E a \in InvArgs : inv = InvFrame("call", a[1], a[2], <<>>, 0)

\* lines 141-143
InvStart ==
  /\ inv.pc = "call"
  /\ inv' = [inv EXCEPT !.pc = "loop",
                        !.V = [m \in 1..Len(inv.mat) |-> iterative_inv_init(inv.mat[m])]]
  /\ UNCHANGED <<inst, ctor, attn, last, lm, fa>>

\* lines 145-147, one iteration
InvStep ==
  /\ inv.pc = "loop"
  /\ inv.i < inv.n_iter
  /\ inv' = [inv EXCEPT !.i = @ + 1,
                        !.V = [m \in 1..Len(inv.mat) |->
                                 iterative_inv_step(inv.mat[m], inv.V[m])]]
  /\ UNCHANGED <<inst, ctor, attn, last, lm, fa>>

\* line 148
InvReturn ==
  /\ inv.pc = "loop"
  /\ inv.i = inv.n_iter
  /\ inv' = [inv EXCEPT !.pc = "done"]
  /\ UNCHANGED <<inst, ctor, attn, last, lm, fa>>

NextInv == InvStart \/ InvStep \/ InvReturn

SpecInv == InitInv /\ [][NextInv]_vars

\* C7: iterative_inv applied to identity matrices returns identity matrices,
\* for every n_iter >= 1 and every size n >= 1; every iterate is the
\* identity.
IdentityIsFixed ==
  (inv.pc \in {"loop", "done"}
     /\ \A m \in 1..Len(inv.mat) : inv.mat[m] = Eye(Size(inv.mat[m])))
  => \A m \in 1..Len(inv.mat) :
       \A i, j \in 1..Size(inv.mat[m]) :
         inv.V[m][i][j] = IF i = j THEN <<1, 1>> ELSE <<0, 1>>

IdentityIsFixedWitness ==
  /\ inv.pc = "done"
  /\ inv.n_iter = MaxIter
  /\ inv.i = MaxIter
  /\ Len(inv.mat) = 2
  /\ inv.mat[1] = Eye(MaxN)
  /\ inv.V = inv.mat

\* the sums of the entries of each row and of each column of K
RowSums(K) == {RSum(K[i]) : i \in 1..Size(K)}

ColSums(K) == {RSum([i \in 1..Size(K) |-> K[i][j]]) : j \in 1..Size(K)}

Largest(S) == CHOOSE c \in S : \A d \in S : RLeq(d, c)

\* V = K^T / c, entry by entry
IsScaledTranspose(V, K, c) ==
  \A i, j \in 1..Size(K) : RMul(V[i][j], c) = K[j][i]

AtInitialIterate == inv.pc = "loop" /\ inv.i = 0

\* C8 as stated: the initial iterate is K^T divided by the largest row sum
\* of K, for each batch entry and head.
InitialIterateRowSum ==
  AtInitialIterate =>
    \A m \in 1..Len(inv.mat) :
      IsScaledTranspose(inv.V[m], inv.mat[m], Largest(RowSums(inv.mat[m])))

\* C8 amended: the initial iterate is K^T divided by the largest column sum
\* of K (the sum runs over dim = -2, the row index), for each batch entry and
\* head separately.
InitialIterateColSum ==
  AtInitialIterate =>
    \A m \in 1..Len(inv.mat) :
      IsScaledTranspose(inv.V[m], inv.mat[m], Largest(ColSums(inv.mat[m])))

InitialIterateColSumWitness ==
  /\ AtInitialIterate
  /\ Len(inv.mat) = 2
  /\ Largest(ColSums(inv.mat[1])) # Largest(RowSums(inv.mat[1]))
  /\ Largest(ColSums(inv.mat[1])) # Largest(ColSums(inv.mat[2]))
  /\ IsScaledTranspose(inv.V[1], inv.mat[1], Largest(ColSums(inv.mat[1])))

(* ================== landmark construction on numbers ==================== *)
(* A tensor of values is its shape and its entries in row-major order.      *)
LandBatches == {1, 2}
LandHeads == {1, 2}
LandWidths == {1, 2}

Values(shape, flat) == [shape |-> shape, flat |-> flat]

\* the row-major position of entry (b, h, t, d), all counted from 0
At4(shape, b, h, t, d) ==
  ((b * shape[2] + h) * shape[3] + t) * shape[4] + d + 1

\* the indices <<b, h, t, d>>, counted from 0, of row-major position p
Coord4(shape, p) ==
  <<(p - 1) \div (shape[4] * shape[3] * shape[2]),
    ((p - 1) \div (shape[4] * shape[3])) % shape[2],
    ((p - 1) \div shape[4]) % shape[3],
    (p - 1) % shape[4]>>

\* the tensor of a 4-d shape whose entry at indices c is f[c]
Build4(shape, f) ==
  Values(shape, [p \in 1..Numel(shape) |-> f[Coord4(shape, p)]])

\* the indices of a 4-d shape
Coords(shape) ==
  (0..(shape[1] - 1)) \X (0..(shape[2] - 1)) \X (0..(shape[3] - 1))
    \X (0..(shape[4] - 1))

\* torch.cat((x, x, x), -2)
cat3_values(x) ==
  LET shape == [x.shape EXCEPT ![3] = 3 * x.shape[3]]
  IN  Build4(shape, [c \in Coords(shape) |->
                       x.flat[At4(x.shape, c[1], c[2], c[3] % x.shape[3], c[4])]])

\* x[:, :, :bound, :]
slice_values(x, bound) ==
  LET shape == [x.shape EXCEPT ![3] = Min(x.shape[3], bound)]
  IN  Build4(shape, [c \in Coords(shape) |->
                       x.flat[At4(x.shape, c[1], c[2], c[3], c[4])]])

\* whether x.reshape(-1, h, n_landmarks, seg, d_k) raises
reshape_raises(x, h, n_landmarks, seg, d_k) ==
  Numel(x.shape) % (h * n_landmarks * seg * d_k) # 0

\* x.reshape(-1, h, n_landmarks, seg, d_k): the entries keep their order
reshape_values(x, h, n_landmarks, seg, d_k) ==
  Values(<<Numel(x.shape) \div (h * n_landmarks * seg * d_k),
           h, n_landmarks, seg, d_k>>, x.flat)

\* the first entry of each segment in place of its mean
first_values(x) ==
  LET seg == x.shape[4]
      D == x.shape[5]
      shape == <<x.shape[1], x.shape[2], x.shape[3], D>>
  IN  Build4(shape, [c \in Coords(shape) |->
        RInt(x.flat[(((c[1] * x.shape[2] + c[2]) * x.shape[3] + c[3]) * seg) * D
                    + c[4] + 1])])

\* x.mean(dim = -2) of a 5-d tensor (b, h, n, seg, d)
mean_values(x) ==
  LET seg == x.shape[4]
      D == x.shape[5]
      shape == <<x.shape[1], x.shape[2], x.shape[3], D>>
  IN  Build4(shape, [c \in Coords(shape) |->
        RDiv(RSum([s \in 1..seg |->
               RInt(x.flat[(((c[1] * x.shape[2] + c[2]) * x.shape[3] + c[3]) * seg
                            + (s - 1)) * D + c[4] + 1])]),
             RInt(seg))])

\* the scaled projections of the model: one entry 1, the others 0 (the
\* construction is linear, so these show which entries each landmark averages)
UnitValues(shape) ==
  {Values(shape, [p \in 1..Numel(shape) |-> IF p = one THEN 1 ELSE 0]) :
     one \in 1..Numel(shape)}

LandArgs ==
  {<<x, seq_len, n_landmarks>> :
     x \in UNION {UnitValues(<<B, H, T, D>>) :
                    B \in LandBatches, H \in LandHeads, T \in 1..MaxT, D \in LandWidths},
     seq_len \in 1..MaxT, n_landmarks \in 1..MaxLandmarks}

LandFrame(pc, x, seq_len, n_landmarks, cur) ==
  [pc |-> pc, x |-> x, seq_len |-> seq_len, n_landmarks |-> n_landmarks, cur |-> cur]

InitLand ==
  /\ inst = NoInstance
  /\ ctor = CtorArgs("none", 0, 0, 0, 0, 0)
  /\ attn = NoneT
  /\ last = NoCall
  /\ inv = NoFrame
  /\ fa = NoFrame
  /\ \E a \in LandArgs : lm = LandFrame("call", a[1], a[2], a[3], a[1])

\* lines 176-177
LandRepeat ==
  /\ lm.pc = "call"
  /\ lm' = [lm EXCEPT !.pc = "repeat", !.cur = cat3_values(lm.x)]
  /\ UNCHANGED <<inst, ctor, attn, last, inv, fa>>

\* lines 178-179
LandTruncate ==
  /\ lm.pc = "repeat"
  /\ lm' = [lm EXCEPT !.pc = "inter",
              !.cur = slice_values(lm.cur, landmark_bound(lm.seq_len, lm.n_landmarks))]
  /\ UNCHANGED <<inst, ctor, attn, last, inv, fa>>

\* lines 181-182: the reshape, which may raise
LandReshape ==
  /\ lm.pc = "inter"
  /\ LET seg == (lm.seq_len \div lm.n_landmarks) + 1
         h == lm.x.shape[2]
         d_k == lm.x.shape[4]
     IN  lm' = IF reshape_raises(lm.cur, h, lm.n_landmarks, seg, d_k)
               THEN [lm EXCEPT !.pc = "raised"]
               ELSE [lm EXCEPT !.pc = "segments",
                       !.cur = reshape_values(lm.cur, h, lm.n_landmarks, seg, d_k)]
  /\ UNCHANGED <<inst, ctor, attn, last, inv, fa>>

\* lines 181-182: the mean over each segment
LandMean ==
  /\ lm.pc = "segments"
  /\ lm' = [lm EXCEPT !.pc = "landmarks", !.cur = mean_values(lm.cur)]
  /\ UNCHANGED <<inst, ctor, attn, last, inv, fa>>

NextLand == LandRepeat \/ LandTruncate \/ LandReshape \/ LandMean

SpecLand == InitLand /\ [][NextLand]_vars

(* ----------------------- claims checked under SpecLand ------------------ *)
\* the smallest multiple of n that is at least lo
SmallestMultiple(n, lo) ==
  CHOOSE m \in lo..(lo + n) : m % n = 0 /\ \A k \in lo..(m - 1) : k % n # 0

\* the mean of the seg entries of the repeated sequence that start at
\* position i * seg, for batch entry b, head h and feature d
SegmentMean(x, seg, b, h, i, d) ==
  RDiv(RSum([s \in 1..seg |->
         RInt(x.flat[At4(x.shape, b, h, (i * seg + s - 1) % x.shape[3], d)])]),
       RInt(seg))

\* cur holds n_landmarks landmarks per batch entry and head, landmark i the
\* mean of the i-th of the contiguous segments of length seg
AreSegmentMeans(cur, x, n_landmarks, seg) ==
  /\ cur.shape = [x.shape EXCEPT ![3] = n_landmarks]
  /\ \A b \in 0..(x.shape[1] - 1), h \in 0..(x.shape[2] - 1),
        i \in 0..(n_landmarks - 1), d \in 0..(x.shape[4] - 1) :
       cur.flat[At4(cur.shape, b, h, i, d)] = SegmentMean(x, seg, b, h, i, d)

\* the sequence is as long as the query: Q, or K in self-attention
OwnLength == lm.x.shape[3] = lm.seq_len

\* C9 as stated: the repeated sequence is truncated to the smallest multiple
\* of n_landmarks that is at least seq_len, and split into n_landmarks
\* contiguous equal segments, each averaged into one landmark.
TruncatedToCeiling ==
  LET L == SmallestMultiple(lm.n_landmarks, lm.seq_len)
  IN  /\ (OwnLength /\ lm.pc = "inter") => lm.cur.shape[3] = L
      /\ (OwnLength /\ lm.pc = "landmarks") =>
           AreSegmentMeans(lm.cur, lm.x, lm.n_landmarks, L \div lm.n_landmarks)

\* C9 amended: the slice bound is the smallest multiple of n_landmarks that is
\* strictly greater than seq_len; the repeated sequence, of length 3 T, is
\* truncated to the smaller of 3 T and that bound; when the bound is at most
\* 3 T the reshape does not raise and landmark i is the mean of the i-th of
\* n_landmarks contiguous segments of seq_len // n_landmarks + 1 entries.
TruncatedPastLength ==
  LET L == SmallestMultiple(lm.n_landmarks, lm.seq_len + 1)
      fits == L <= 3 * lm.x.shape[3]
  IN  /\ lm.pc = "inter" => lm.cur.shape[3] = Min(3 * lm.x.shape[3], L)
      /\ lm.pc = "raised" => ~fits
      /\ (lm.pc = "segments" /\ fits) =>
           lm.cur.shape = <<lm.x.shape[1], lm.x.shape[2], lm.n_landmarks,
                            (lm.seq_len \div lm.n_landmarks) + 1, lm.x.shape[4]>>
      /\ (lm.pc = "landmarks" /\ fits) =>
           AreSegmentMeans(lm.cur, lm.x, lm.n_landmarks, L \div lm.n_landmarks)

TruncatedPastLengthWitness ==
  /\ lm.pc = "landmarks"
  /\ OwnLength
  /\ lm.n_landmarks = 1
  /\ lm.seq_len = 2
  /\ \E p \in 1..Len(lm.cur.flat) : lm.cur.flat[p] = <<2, 3>>

NoSegmentation == lm.n_landmarks = lm.seq_len /\ OwnLength

\* C10 as stated: with n_landmarks = seq_len every segment holds one position,
\* so that landmark i is the vector at position i.
IdentitySegmentation ==
  (NoSegmentation /\ lm.pc = "landmarks") =>
    /\ lm.cur.shape = lm.x.shape
    /\ \A p \in 1..Len(lm.x.flat) : lm.cur.flat[p] = RInt(lm.x.flat[p])

\* C10 amended: with n_landmarks = seq_len the reshape does not raise, every
\* segment holds two entries of the repeated sequence, and landmark i is the
\* mean of the vectors at positions 2i mod seq_len and (2i + 1) mod seq_len;
\* it is the vector at position i when seq_len = 1.
PairSegmentation ==
  /\ NoSegmentation => lm.pc # "raised"
  /\ (NoSegmentation /\ lm.pc = "segments") => lm.cur.shape[4] = 2
  /\ (NoSegmentation /\ lm.pc = "landmarks") =>
       /\ lm.cur.shape = lm.x.shape
       /\ \A b \in 0..(lm.x.shape[1] - 1), h \in 0..(lm.x.shape[2] - 1),
             i \in 0..(lm.seq_len - 1), d \in 0..(lm.x.shape[4] - 1) :
            /\ RMul(RInt(2), lm.cur.flat[At4(lm.x.shape, b, h, i, d)]) =
                 RInt(lm.x.flat[At4(lm.x.shape, b, h, (2 * i) % lm.seq_len, d)]
                      + lm.x.flat[At4(lm.x.shape, b, h, (2 * i + 1) % lm.seq_len, d)])
            /\ lm.seq_len = 1 =>
                 lm.cur.flat[At4(lm.x.shape, b, h, i, d)] =
                   RInt(lm.x.flat[At4(lm.x.shape, b, h, i, d)])

PairSegmentationWitness ==
  /\ NoSegmentation
  /\ lm.pc = "landmarks"
  /\ lm.seq_len = 2
  /\ lm.x.flat[1] = 1
  /\ lm.cur.flat[1] = <<1, 2>>
  /\ lm.cur.flat[1 + lm.x.shape[4]] = <<1, 2>>

(* ================= forward_attention on numbers ========================= *)
MaxKeys == 2
AttnBatches == {1, 2}
AttnHeads == {1, 2}
AttnQueries == {1, 2}
ScoreKinds == {"flat", "rising", "falling", "mixed"}

\* torch.finfo(scores.dtype).min: a score below every score of the model
min_value == -1000000

RECURSIVE Pow2(_)
Pow2(n) == IF n = 0 THEN 1 ELSE 2 * Pow2(n - 1)

\* exp(x) for x <= 0 on the score grid of the model, where one unit of score
\* halves the weight; as in floating point, exp(x) is 0 for x as far below 0
\* as min_value is below the scores
Exp(x) == IF x <= min_value \div 2 THEN RInt(0) ELSE Rat(1, Pow2(-x))

RECURSIVE IntMax(_)
IntMax(xs) ==
  IF Len(xs) = 1 THEN xs[1]
  ELSE LET m == IntMax(Tail(xs)) IN IF m <= Head(xs) THEN Head(xs) ELSE m

NoMask == Values(<<>>, <<>>)

\* mask.unsqueeze(1).eq(0)
mask_eq0(mask) ==
  Values(<<mask.shape[1], 1>> \o Tail(mask.shape),
         [p \in 1..Len(mask.flat) |-> mask.flat[p] = 0])

\* x.masked_fill(m, value), m of shape (B, 1, 1, Tk) or (B, 1, Tq, Tk)
masked_fill_values(x, m, value) ==
  Build4(x.shape, [c \in Coords(x.shape) |->
    IF m.flat[At4(m.shape, c[1], 0, IF m.shape[3] = 1 THEN 0 ELSE c[3], c[4])]
    THEN value
    ELSE x.flat[At4(x.shape, c[1], c[2], c[3], c[4])]])

\* torch.softmax(x, dim = -1): exp(x - max) / sum(exp(x - max)) along each row
softmax_values(x) ==
  Build4(x.shape, [c \in Coords(x.shape) |->
    LET r == [j \in 1..x.shape[4] |-> x.flat[At4(x.shape, c[1], c[2], c[3], j - 1)]]
        top == IntMax(r)
    IN  RDiv(Exp(r[c[4] + 1] - top),
             RSum([k \in 1..Len(r) |-> Exp(r[k] - top)]))])

\* lines 79-87 without the fill after the softmax
attn_values_one_fill(scores, mask) ==
  IF mask = NoMask THEN softmax_values(scores)
  ELSE softmax_values(masked_fill_values(scores, mask_eq0(mask), min_value))

\* lines 79-87: the value assigned to self.attn
attn_values(scores, mask) ==
  IF mask = NoMask THEN softmax_values(scores)
  ELSE LET m == mask_eq0(mask)
       IN  masked_fill_values(
             softmax_values(masked_fill_values(scores, m, min_value)),
             m, RInt(0))

\* lines 89-95: the tensor returned, given the weights stored
attn_output(self, weights, value) ==
  LET p_attn == Dropout(Mk(weights.shape, "attn", <<>>, 0))
      x == Matmul(p_attn, value, 90)
  IN  Linear(self.linear_out,
             Merge(x, value.shape[1], self.h * self.d_k, 92), 95)

ScoreAt(kind, b, h, i, j) ==
  CASE kind = "flat" -> 0
    [] kind = "rising" -> j
    [] kind = "falling" -> 0 - j
    [] OTHER -> (b + 2 * h + i + j) % 3

Scores(kind, shape) ==
  Build4(shape, [c \in Coords(shape) |-> ScoreAt(kind, c[1], c[2], c[3], c[4])])

\* the masks of a call: None, or 0/1 entries of shape (B, 1, Tk) or (B, Tq, Tk)
MaskValues(B, Tq, Tk) ==
  {NoMask}
  \cup {Values(<<B, 1, Tk>>, f) : f \in [1..(B * Tk) -> {0, 1}]}
  \cup {Values(<<B, Tq, Tk>>, f) : f \in [1..(B * Tq * Tk) -> {0, 1}]}

AttnFrame(pc, value, scores, mask, out) ==
  [pc |-> pc, value |-> value, scores |-> scores, mask |-> mask, out |-> out]

\* a constructed MultiHeadedAttention and the arguments of one
\* forward_attention call
InitAttn ==
  /\ last = NoCall
  /\ inv = NoFrame
  /\ lm = NoFrame
  /\ attn = NoneT
  /\ \E h \in AttnHeads, B \in AttnBatches, Tq \in AttnQueries, Tk \in 1..MaxKeys,
        kind \in ScoreKinds :
       \E mask \in MaskValues(B, Tq, Tk) :
         /\ inst = MHA_init(h, 2, 2)
         /\ ctor = CtorArgs("mha", h, 2, 0, 2, 0)
         /\ fa = AttnFrame("call", Input("v", <<B, h, Tk, 2 \div h>>),
                           Scores(kind, <<B, h, Tq, Tk>>), mask, NoneT)

\* lines 79-85: a mask was given
AttnMasked ==
  /\ fa.pc = "call"
  /\ fa.mask # NoMask
  /\ attn' = attn_values(fa.scores, fa.mask)
  /\ fa' = [fa EXCEPT !.pc = "stored"]
  /\ UNCHANGED <<inst, ctor, last, inv, lm>>

\* lines 86-87: no mask
AttnUnmasked ==
  /\ fa.pc = "call"
  /\ fa.mask = NoMask
  /\ attn' = attn_values(fa.scores, fa.mask)
  /\ fa' = [fa EXCEPT !.pc = "stored"]
  /\ UNCHANGED <<inst, ctor, last, inv, lm>>

\* lines 89-95
AttnReturn ==
  /\ fa.pc = "stored"
  /\ fa' = [fa EXCEPT !.pc = "done", !.out = attn_output(inst, attn, fa.value)]
  /\ UNCHANGED <<inst, ctor, attn, last, inv, lm>>

NextAttn == AttnMasked \/ AttnUnmasked \/ AttnReturn

SpecAttn == InitAttn /\ [][NextAttn]_vars

\* the mask entry that applies to query i and key j of batch entry b
MaskAt(mask, b, i, j) ==
  mask.flat[(b * mask.shape[2] + (IF mask.shape[2] = 1 THEN 0 ELSE i))
              * mask.shape[3] + j + 1]

\* C1: when a mask is given, every entry of self.attn whose mask entry is 0 is
\* exactly 0, for every batch entry, head and query; a query whose mask
\* entries are all 0 has weights that sum to exactly 0.
MaskedWeightsAreZero ==
  (fa.pc \in {"stored", "done"} /\ fa.mask # NoMask) =>
    /\ attn.shape = fa.scores.shape
    /\ \A b \in 0..(attn.shape[1] - 1), h \in 0..(attn.shape[2] - 1),
          i \in 0..(attn.shape[3] - 1) :
         /\ \A j \in 0..(attn.shape[4] - 1) :
              MaskAt(fa.mask, b, i, j) = 0 =>
                attn.flat[At4(attn.shape, b, h, i, j)] = <<0, 1>>
         /\ (\A j \in 0..(attn.shape[4] - 1) : MaskAt(fa.mask, b, i, j) = 0) =>
              RSum([j \in 1..attn.shape[4] |->
                      attn.flat[At4(attn.shape, b, h, i, j - 1)]]) = <<0, 1>>

\* a (B, Tq, Tk) mask with the first query wholly masked and the second not,
\* two heads
MaskedWeightsAreZeroWitness ==
  /\ fa.pc = "done"
  /\ fa.mask # NoMask
  /\ fa.mask.shape = <<2, 2, 2>>
  /\ attn.shape = <<2, 2, 2, 2>>
  /\ MaskAt(fa.mask, 0, 0, 0) = 0 /\ MaskAt(fa.mask, 0, 0, 1) = 0
  /\ MaskAt(fa.mask, 0, 1, 0) = 1 /\ MaskAt(fa.mask, 0, 1, 1) = 0
  /\ attn.flat[At4(attn.shape, 0, 1, 0, 0)] = <<0, 1>>
  /\ attn.flat[At4(attn.shape, 0, 1, 1, 0)] = <<1, 1>>
  /\ fa.out.shape = <<2, 2, 2>>

====
